---- MODULE Spec2Model ----
(***************************************************************************)
(* Model of the playback controller in src/app/index.tsx (component App).  *)
(*                                                                         *)
(* React state hooks are the controller's variables.  Every handler is a   *)
(* closure over the values of one render; a handler the user triggers runs *)
(* in the closure of the latest render, whereas the status callback given  *)
(* to Audio.Sound.createAsync keeps the closure of the render in which     *)
(* playAudio was called for as long as the sound delivers events.          *)
(* The engine (expo-av) is modelled by the sounds it was asked to create;   *)
(* what a status object reports is the engine's choice.                    *)
(***************************************************************************)
EXTENDS Integers, Sequences, FiniteSets, TLC

\* ---------------------------------------------------------------- bounds
\* Largest number of tracks the media library returns.
MaxTracks == 3
\* Number of playAudio calls the user starts in one run (the status callback
\* may start one more).
MaxSessions == 2
\* Largest position / duration value (milliseconds) the engine reports.
MaxMillis == 1

\* ------------------------------------------------------------- constants
\* useState<Audio.Sound | null>(null): no playback instance.
NoSound == 0
\* useState<number>(-1): no track selected.
NoTrack == -1
\* status.durationMillis may be undefined (`?? 0` in the callback).
Undefined == -1
\* No seek command was given to the held sound.
NoSeek == [kind |-> "none", value |-> 0]

VARIABLES
    hasPermission,      \* "null" | "true" | "false"
    audioAssets,        \* sequence of assets; track index i is audioAssets[i+1]
    loading,
    playbackInstance,   \* NoSound or the id of a sound
    isPlaying,
    currentTrackIndex,
    position,
    duration,
    isSeeking,
    startup,            \* position of the startup effect: "perm" | "list" | "done"
    mounted,            \* the component is mounted (the mount effect's cleanup
                        \* has not run)
    seek,               \* engine side of the sound now held: the last seek
                        \* command it was given (NoSeek: none yet)
    paused,             \* engine side of the sound now held: TRUE once it was
                        \* told pauseAsync, FALSE once told to play (and when a
                        \* sound created with shouldPlay becomes the held one)
    sounds,             \* the engine: every Audio.Sound created so far, by id;
                        \* a sound still loading is a playAudio call suspended
                        \* at `await createAsync()`
    unloading           \* playAudio calls suspended at `await unloadAsync()`

vars == <<hasPermission, audioAssets, loading, playbackInstance, isPlaying,
          currentTrackIndex, position, duration, isSeeking, startup, mounted, seek,
          paused, sounds, unloading>>

\* The transport state of the controller (TransportState of the design).
transport == <<isPlaying, currentTrackIndex, isSeeking, position, duration>>

\* State written only by the mount effect (its startup and its cleanup).
catalog == <<hasPermission, audioAssets, loading, startup, mounted>>

NumTracks == Len(audioAssets)

\* Mutant of TrackIndexes: one index past the end of the list is accepted.
TrackIndexesOffByOne == 0 .. NumTracks

TrackIndexes == 0 .. (NumTracks - 1)

\* The values closed over in the first render: nothing held, nothing selected.
FirstRender == [pi |-> NoSound, idx |-> NoTrack, seeking |-> FALSE]

\* The values a handler closes over in the current render.
Render == [pi |-> playbackInstance, idx |-> currentTrackIndex, seeking |-> isSeeking]

\* `if (loading) ...; if (!hasPermission) ...`: the library screen is shown.
LibraryVisible == mounted /\ loading = FALSE /\ hasPermission = "true"

\* `{currentTrackIndex !== -1 && (...)}`: slider and buttons are rendered.
ControlsVisible == LibraryVisible /\ currentTrackIndex # NoTrack

Init ==
    /\ hasPermission = "null"
    /\ audioAssets = <<>>
    /\ loading = TRUE
    /\ playbackInstance = NoSound
    /\ isPlaying = FALSE
    /\ currentTrackIndex = NoTrack
    /\ position = 0
    /\ duration = 0
    /\ isSeeking = FALSE
    /\ startup = "perm"
    /\ mounted = TRUE
    /\ seek = NoSeek
    /\ paused = FALSE
    /\ sounds = <<>>
    /\ unloading = <<>>

\* ------------------------------------------------------- startup effect
PermissionDenied ==
    /\ mounted
    /\ startup = "perm"
    /\ hasPermission' = "false"
    /\ loading' = FALSE
    /\ startup' = "done"
    /\ UNCHANGED <<audioAssets, mounted, playbackInstance, seek, paused, transport, sounds,
                   unloading>>

PermissionGranted ==
    /\ mounted
    /\ startup = "perm"
    /\ hasPermission' = "true"
    /\ startup' = "list"
    /\ UNCHANGED <<audioAssets, loading, mounted, playbackInstance, seek, paused, transport,
                   sounds, unloading>>

\* loadAudioAssets, getAssetsAsync resolved with n audio assets.
LoadAudioAssetsOk(n) ==
    /\ mounted
    /\ startup = "list"
    /\ audioAssets' = [i \in 1 .. n |-> i]
    /\ loading' = FALSE
    /\ startup' = "done"
    /\ UNCHANGED <<hasPermission, mounted, playbackInstance, seek, paused, transport, sounds,
                   unloading>>

\* Mutant of LoadAudioAssetsFail: setLoading(false) is skipped on failure.
LoadAudioAssetsFailKeepsLoading ==
    /\ mounted
    /\ startup = "list"
    /\ startup' = "done"
    /\ UNCHANGED <<hasPermission, audioAssets, loading, mounted, playbackInstance, seek,
                   paused, transport, sounds, unloading>>

\* loadAudioAssets, getAssetsAsync rejected: the catch logs, loading is cleared.
LoadAudioAssetsFail ==
    /\ mounted
    /\ startup = "list"
    /\ loading' = FALSE
    /\ startup' = "done"
    /\ UNCHANGED <<hasPermission, audioAssets, mounted, playbackInstance, seek, paused,
                   transport, sounds, unloading>>

\* ------------------------------------------------------------- playAudio
RemoveAt(s, i) == [j \in 1 .. (Len(s) - 1) |-> IF j < i THEN s[j] ELSE s[j + 1]]

\* Audio.Sound.createAsync({uri}, {shouldPlay: true}, onPlaybackStatusUpdate):
\* the sound the engine starts loading for playAudio(index), with the closure
\* of the callback.  While st = "loading" the playAudio call that asked for it
\* is suspended at `await Audio.Sound.createAsync(...)`.
NewSound(index, env, from) ==
    [track |-> index, st |-> "loading", shouldPlay |-> TRUE, env |-> env, from |-> from]

\* A sound that is unloaded, or whose load failed: it plays nothing and its
\* callback can only ever take the `!status.isLoaded` branch, so the track
\* and the closure it was created with are dropped.
Released(st) ==
    [track |-> NoTrack, st |-> st, shouldPlay |-> FALSE,
     env |-> FirstRender, from |-> NoSound]

\* Room for one more playAudio call: every call awaiting unloadAsync will ask
\* for one more sound.
CanStart == Len(sounds) + Len(unloading) < MaxSessions

\* Room for one more handleNext call made by a status callback: an automatic
\* advance is admitted one past the sessions the user may start, so that the
\* finish of the last of them is followed too.
CanAdvance == Len(sounds) + Len(unloading) <= MaxSessions

\* Mutant of PlayAudio: the previous sound is not unloaded before the load.
PlayAudioNoUnload(index, env, from) ==
    IF index \in TrackIndexes
    THEN /\ sounds' = Append(sounds, NewSound(index, env, from))
         /\ UNCHANGED unloading
    ELSE UNCHANGED <<sounds, unloading>>

\* playAudio(index) up to its first await, run in closure env; from is the
\* sound whose status callback (a finished track) made the call, NoSound when
\* the user made it.
PlayAudio(index, env, from) ==
    IF env.pi # NoSound
    THEN /\ unloading' = Append(unloading, [index |-> index, env |-> env, from |-> from])
         /\ UNCHANGED sounds
    ELSE IF index \in TrackIndexes
    THEN /\ sounds' = Append(sounds, NewSound(index, env, from))
         /\ UNCHANGED unloading
    ELSE UNCHANGED <<sounds, unloading>>

\* `await playbackInstance.unloadAsync()` resolved in call c:
\* setPlaybackInstance(null), then createAsync is issued.
UnloadResolve(c) ==
    /\ mounted
    /\ playbackInstance' = NoSound
    /\ seek' = NoSeek
    /\ paused' = FALSE
    /\ LET call == unloading[c]
           unloaded == [sounds EXCEPT ![call.env.pi] = Released("unloaded")]
       IN IF call.index \in TrackIndexes
          THEN sounds' = Append(unloaded, NewSound(call.index, call.env, call.from))
          ELSE sounds' = unloaded
    /\ unloading' = RemoveAt(unloading, c)
    /\ UNCHANGED <<catalog, transport>>

\* `await playbackInstance.unloadAsync()` rejected in call c: the catch logs.
UnloadReject(c) ==
    /\ mounted
    /\ unloading' = RemoveAt(unloading, c)
    /\ UNCHANGED <<catalog, playbackInstance, seek, paused, transport, sounds>>

\* Mutant of CreateResolve: setCurrentTrackIndex(index) is left out.
CreateResolveKeepsIndex(s) ==
    /\ mounted
    /\ sounds[s].st = "loading"
    /\ sounds' = [sounds EXCEPT ![s].st = "loaded"]
    /\ playbackInstance' = s
    /\ seek' = NoSeek
    /\ paused' = FALSE
    /\ isPlaying' = TRUE
    /\ UNCHANGED <<catalog, currentTrackIndex, position, duration, isSeeking, unloading>>

\* `await Audio.Sound.createAsync(...)` resolved with the loaded sound s.
CreateResolve(s) ==
    /\ mounted
    /\ sounds[s].st = "loading"
    /\ sounds' = [sounds EXCEPT ![s].st = "loaded"]
    /\ playbackInstance' = s
    /\ seek' = NoSeek
    /\ paused' = FALSE
    /\ currentTrackIndex' = sounds[s].track
    /\ isPlaying' = TRUE
    /\ UNCHANGED <<catalog, position, duration, isSeeking, unloading>>

\* `await Audio.Sound.createAsync(...)` rejected: the catch logs the error.
CreateReject(s) ==
    /\ mounted
    /\ sounds[s].st = "loading"
    /\ sounds' = [sounds EXCEPT ![s] = Released("failed")]
    /\ UNCHANGED <<catalog, playbackInstance, seek, paused, transport, unloading>>

\* ------------------------------------------------------ next / previous
\* Mutant of NextIndex: the wrap test is off by one (`>` for `>=`).
NextIndexNoWrap(i, n) ==
    LET nextIndex == i + 1
    IN IF nextIndex > n THEN 0 ELSE nextIndex

\* handleNext: `currentTrackIndex + 1`, 0 past the last track.
NextIndex(i, n) ==
    LET nextIndex == i + 1
    IN IF nextIndex >= n THEN 0 ELSE nextIndex

\* Mutant of PrevIndex: below 0 it wraps to the first track, not the last.
PrevIndexWrapsToZero(i, n) ==
    LET prevIndex == i - 1
    IN IF prevIndex < 0 THEN 0 ELSE prevIndex

\* Mutant of PrevIndex: the index is computed by the modulo formula.
PrevIndexModulo(i, n) == (i - 1 + n) % n

\* handlePrevious: `currentTrackIndex - 1`, the last track below 0.
PrevIndex(i, n) ==
    LET prevIndex == i - 1
    IN IF prevIndex < 0 THEN n - 1 ELSE prevIndex

\* handleNext run in closure env.
HandleNext(env, from) ==
    IF NumTracks = 0
    THEN UNCHANGED <<sounds, unloading>>
    ELSE PlayAudio(NextIndex(env.idx, NumTracks), env, from)

\* handlePrevious run in closure env.
HandlePrevious(env, from) ==
    IF NumTracks = 0
    THEN UNCHANGED <<sounds, unloading>>
    ELSE PlayAudio(PrevIndex(env.idx, NumTracks), env, from)

\* ------------------------------------------------------ status callback
\* The status objects sound s can deliver.
StatusOf(s) ==
    IF sounds[s].st = "loaded"
    THEN [isLoaded : {TRUE}, error : {FALSE},
          positionMillis : 0 .. MaxMillis,
          durationMillis : {Undefined, MaxMillis},
          isPlaying : BOOLEAN, didJustFinish : BOOLEAN]
    ELSE IF sounds[s].st \in {"unloaded", "failed"}
    THEN [isLoaded : {FALSE}, error : BOOLEAN,
          positionMillis : {0}, durationMillis : {Undefined},
          isPlaying : {FALSE}, didJustFinish : {FALSE}]
    ELSE {}

\* Mutant of OnPlaybackStatusUpdate: a status that is not loaded stops playback.
OnPlaybackStatusUpdateStops(s, status) ==
    LET env == sounds[s].env
    IN IF ~status.isLoaded
       THEN /\ isPlaying' = FALSE
            /\ UNCHANGED <<catalog, playbackInstance, seek, paused, currentTrackIndex,
                           isSeeking, position, duration, sounds, unloading>>
       ELSE /\ IF ~env.seeking
               THEN /\ position' = status.positionMillis
                    /\ duration' = (IF status.durationMillis = Undefined
                                    THEN 0 ELSE status.durationMillis)
               ELSE UNCHANGED <<position, duration>>
            /\ isPlaying' = status.isPlaying
            /\ IF status.didJustFinish
               THEN /\ CanAdvance
                    /\ HandleNext(env, s)
               ELSE UNCHANGED <<sounds, unloading>>
            /\ UNCHANGED <<catalog, playbackInstance, seek, paused, currentTrackIndex, isSeeking>>

\* onPlaybackStatusUpdate(status), run in the closure sound s was created with.
OnPlaybackStatusUpdate(s, status) ==
    LET env == sounds[s].env
    IN IF ~status.isLoaded
       THEN UNCHANGED vars
       ELSE /\ IF ~env.seeking
               THEN /\ position' = status.positionMillis
                    /\ duration' = (IF status.durationMillis = Undefined
                                    THEN 0 ELSE status.durationMillis)
               ELSE UNCHANGED <<position, duration>>
            /\ isPlaying' = status.isPlaying
            /\ IF status.didJustFinish
               THEN /\ CanAdvance
                    /\ HandleNext(env, s)
               ELSE UNCHANGED <<sounds, unloading>>
            /\ UNCHANGED <<catalog, playbackInstance, seek, paused, currentTrackIndex, isSeeking>>

\* ------------------------------------------------------- other handlers
\* Mutant of SeekCommand: the seek always resumes playback.
SeekCommandAlwaysPlays(value) == [kind |-> "playFromPositionAsync", value |-> value]

\* The engine command handleSlidingComplete(value) issues to the held sound.
SeekCommand(value) ==
    [kind |-> IF isPlaying THEN "playFromPositionAsync" ELSE "setPositionAsync",
     value |-> value]

\* Mutant of HandleSliderValueChange: every drag value is sent to the engine.
HandleSliderValueChangeSeeks(value) ==
    /\ isSeeking' = TRUE
    /\ position' = value
    /\ seek' = SeekCommand(value)
    /\ UNCHANGED <<catalog, playbackInstance, paused, isPlaying, currentTrackIndex, duration,
                   sounds, unloading>>

\* Mutant of HandlePlayPause: isPlaying is flipped optimistically.
HandlePlayPauseOptimistic ==
    /\ IF playbackInstance # NoSound /\ sounds[playbackInstance].st = "loaded"
       THEN paused' = isPlaying
       ELSE UNCHANGED paused
    /\ isPlaying' = ~isPlaying
    /\ UNCHANGED <<catalog, playbackInstance, seek, currentTrackIndex, isSeeking, position,
                   duration, sounds, unloading>>

\* handlePlayPause in the current render: pauseAsync when isPlaying, playAsync
\* otherwise; a command to a sound that is not loaded rejects and changes nothing.
HandlePlayPause ==
    /\ IF playbackInstance # NoSound /\ sounds[playbackInstance].st = "loaded"
       THEN paused' = isPlaying
       ELSE UNCHANGED paused
    /\ UNCHANGED <<catalog, playbackInstance, seek, transport, sounds, unloading>>

\* handleSliderValueChange(value)
HandleSliderValueChange(value) ==
    /\ isSeeking' = TRUE
    /\ position' = value
    /\ UNCHANGED <<catalog, playbackInstance, seek, paused, isPlaying, currentTrackIndex, duration,
                   sounds, unloading>>

\* handleSlidingComplete(value) in the current render.  The awaited command
\* either resolves, and setIsSeeking(false) runs, or rejects (the sound is not
\* loaded, the seek was interrupted): the await throws and nothing after it runs.
HandleSlidingComplete(value) ==
    /\ IF playbackInstance # NoSound
       THEN /\ seek' = SeekCommand(value)
            /\ \/ /\ sounds[playbackInstance].st = "loaded"
                  /\ paused' = (IF SeekCommand(value).kind = "playFromPositionAsync"
                                THEN FALSE ELSE paused)
                  /\ isSeeking' = FALSE
               \/ UNCHANGED <<paused, isSeeking>>
       ELSE /\ isSeeking' = FALSE
            /\ UNCHANGED <<seek, paused>>
    /\ UNCHANGED <<catalog, playbackInstance, isPlaying, currentTrackIndex, position,
                   duration, sounds, unloading>>

\* ----------------------------------------------------------------- unmount
\* Cleanup of the mount effect, run in closure env:
\* `if (playbackInstance) { playbackInstance.unloadAsync(); }`.
Cleanup(env) ==
    IF env.pi # NoSound
    THEN sounds' = [sounds EXCEPT ![env.pi] = Released("unloaded")]
    ELSE UNCHANGED sounds

\* The component is unmounted.  The effect has no dependencies (`[]`), so the
\* cleanup React runs is the one the first render returned.  The model follows
\* the component up to this step.
Unmount ==
    /\ mounted
    /\ mounted' = FALSE
    /\ Cleanup(FirstRender)
    /\ UNCHANGED <<hasPermission, audioAssets, loading, startup, playbackInstance, seek,
                   paused, transport, unloading>>

\* --------------------------------------------------------- user actions
\* playAudio(index) called in the current render.
SelectTrackCall(index) ==
    /\ mounted
    /\ CanStart
    /\ PlayAudio(index, Render, NoSound)
    /\ UNCHANGED <<catalog, playbackInstance, seek, paused, transport>>

\* handleNext called in the current render.
NextCall ==
    /\ mounted
    /\ CanStart
    /\ HandleNext(Render, NoSound)
    /\ UNCHANGED <<catalog, playbackInstance, seek, paused, transport>>

\* handlePrevious called in the current render.
PreviousCall ==
    /\ mounted
    /\ CanStart
    /\ HandlePrevious(Render, NoSound)
    /\ UNCHANGED <<catalog, playbackInstance, seek, paused, transport>>

\* A tap on a row of the track list: onPress={() => playAudio(index)}.
SelectTrack(index) == LibraryVisible /\ SelectTrackCall(index)

\* The buttons and the slider, rendered only while a track is selected.
NextTap == ControlsVisible /\ NextCall

PreviousTap == ControlsVisible /\ PreviousCall

PlayPauseTap == ControlsVisible /\ HandlePlayPause

SliderDrag == ControlsVisible /\ \E value \in 0 .. duration : HandleSliderValueChange(value)

SliderRelease == ControlsVisible /\ \E value \in 0 .. duration : HandleSlidingComplete(value)

\* The engine delivers a status object to the callback of one of its sounds.
StatusEvent ==
    /\ mounted
    /\ \E s \in DOMAIN sounds : \E status \in StatusOf(s) : OnPlaybackStatusUpdate(s, status)

\* The app as rendered: handlers run only from the widgets that are shown.
Next ==
    \/ PermissionDenied
    \/ PermissionGranted
    \/ \E n \in 0 .. MaxTracks : LoadAudioAssetsOk(n)
    \/ LoadAudioAssetsFail
    \/ \E index \in TrackIndexes : SelectTrack(index)
    \/ NextTap
    \/ PreviousTap
    \/ PlayPauseTap
    \/ SliderDrag
    \/ SliderRelease
    \/ StatusEvent
    \/ Unmount
    \/ \E c \in DOMAIN unloading : UnloadResolve(c)
    \/ \E c \in DOMAIN unloading : UnloadReject(c)
    \/ \E s \in DOMAIN sounds : CreateResolve(s)
    \/ \E s \in DOMAIN sounds : CreateReject(s)

Spec == Init /\ [][Next]_vars

\* The track-selection operations (playAudio, handleNext, handlePrevious)
\* called directly, in any state, whatever the view shows: the handlers as
\* an interface, without the render gates in front of them.
NextApi ==
    \/ PermissionDenied
    \/ PermissionGranted
    \/ \E n \in 0 .. MaxTracks : LoadAudioAssetsOk(n)
    \/ LoadAudioAssetsFail
    \/ \E index \in TrackIndexes : SelectTrackCall(index)
    \/ NextCall
    \/ PreviousCall
    \/ PlayPauseTap
    \/ SliderDrag
    \/ SliderRelease
    \/ StatusEvent
    \/ Unmount
    \/ \E c \in DOMAIN unloading : UnloadResolve(c)
    \/ \E c \in DOMAIN unloading : UnloadReject(c)
    \/ \E s \in DOMAIN sounds : CreateResolve(s)
    \/ \E s \in DOMAIN sounds : CreateReject(s)

SpecApi == Init /\ [][NextApi]_vars

\* The app as rendered, with the promises of the startup effect settling:
\* requestPermissionsAsync and getAssetsAsync each resolve or reject.
SpecLive ==
    /\ Init
    /\ [][Next]_vars
    /\ WF_vars(PermissionDenied \/ PermissionGranted)
    /\ WF_vars(LoadAudioAssetsFail \/ \E n \in 0 .. MaxTracks : LoadAudioAssetsOk(n))

\* ================================================================ claims
\* Sounds the engine holds loaded.
Loaded == {s \in DOMAIN sounds : sounds[s].st = "loaded"}

\* The index handed to playAudio by the step: that of the call it suspended
\* at unloadAsync, or of the sound it asked the engine to create.
StartedIndex ==
    IF Len(unloading') > Len(unloading) THEN unloading'[Len(unloading')].index
    ELSE IF Len(sounds') > Len(sounds) THEN sounds'[Len(sounds')].track
    ELSE NoTrack

\* C1: at most one playback session is loaded in the engine in every
\* reachable state.
C1_AtMostOneLoaded == Cardinality(Loaded) <= 1

\* C2 as stated: currentIndex == -1, no held session and isPlaying == false
\* are equivalent in every reachable state.
C2_Equivalence ==
    /\ (currentTrackIndex = NoTrack) <=> (playbackInstance = NoSound)
    /\ (playbackInstance = NoSound) <=> (isPlaying = FALSE)

\* C2 amended: in every reachable state currentIndex == -1 implies that the
\* controller holds no session (a held session implies a selected track).
C2_HeldImpliesSelected == playbackInstance # NoSound => currentTrackIndex \in TrackIndexes

\* C2 witness: a session is held and paused, with its track selected.
C2_Witness ==
    /\ playbackInstance # NoSound
    /\ isPlaying = FALSE
    /\ currentTrackIndex # NoTrack

\* Sound s has been superseded: the controller holds a session created later.
Superseded(s) == playbackInstance # NoSound /\ playbackInstance > s

\* C3: a status event from a superseded session changes no controller state.
C3_StaleEventIgnored ==
    [][\A s \in DOMAIN sounds : \A status \in StatusOf(s) :
          (Superseded(s) /\ OnPlaybackStatusUpdate(s, status))
              => UNCHANGED <<isPlaying, position, duration, currentTrackIndex>>]_vars

\* C4: selectTrack(i) then selectTrack(j), j # i, the second started before
\* the first one's load resolved; once both have settled exactly one session
\* is loaded, it is the one for track j, and currentIndex == j.
C4_LastSelectionWins ==
    (/\ Len(sounds) = 2
     /\ unloading = <<>>
     /\ \A s \in {1, 2} : sounds[s].st \notin {"loading", "failed"} /\ sounds[s].from = NoSound
     /\ sounds[2].env.pi = NoSound
     /\ sounds[1].track # sounds[2].track)
    => (/\ Loaded = {2}
        /\ playbackInstance = 2
        /\ currentTrackIndex = sounds[2].track)

\* C5: a selectTrack(index) whose engine calls succeed ends with
\* currentIndex == index, isPlaying == true and the controller holding the
\* newly loaded session for that track, created with autoplay and with the
\* status callback attached; the session its closure held (the existing one,
\* also when index is the current index) has been released.
C5_SelectTrackEnds ==
    [][\A s \in DOMAIN sounds : CreateResolve(s) =>
          /\ sounds[s].track \in TrackIndexes
          /\ currentTrackIndex' = sounds[s].track
          /\ isPlaying' = TRUE
          /\ playbackInstance' = s
          /\ Loaded' = Loaded \cup {s}
          /\ sounds'[s].shouldPlay
          /\ sounds'[s].env = sounds[s].env
          /\ StatusOf(s)' # {}
          /\ sounds[s].env.pi # NoSound =>
                 /\ sounds[s].env.pi # s
                 /\ sounds[s].env.pi \notin Loaded']_vars

\* C5 witness: the user re-selected the current index; the session held then
\* is released and a new one for the same track is loaded and held.
C5_Witness ==
    \E s \in DOMAIN sounds :
        /\ playbackInstance = s
        /\ sounds[s].st = "loaded"
        /\ sounds[s].from = NoSound
        /\ sounds[s].env.pi # NoSound
        /\ sounds[sounds[s].env.pi].st = "unloaded"
        /\ sounds[s].env.idx = sounds[s].track
        /\ currentTrackIndex = sounds[s].track
        /\ isPlaying

\* C6: a failed engine load ends with currentIndex == -1 and no session held.
C6_LoadFailureResets ==
    [][\A s \in DOMAIN sounds : CreateReject(s) =>
          (currentTrackIndex' = NoTrack /\ playbackInstance' = NoSound)]_vars

RECURSIVE IterateNext(_, _, _)
\* handleNext's index computation applied k times from index i.
IterateNext(i, n, k) == IF k = 0 THEN i ELSE IterateNext(NextIndex(i, n), n, k - 1)

\* C7: from every valid index i next() selects (i + 1) mod len, and
\* len consecutive next() calls lead back to i.
C7_NextWrapsAround ==
    /\ [](currentTrackIndex \in TrackIndexes =>
            /\ NextIndex(currentTrackIndex, NumTracks) = (currentTrackIndex + 1) % NumTracks
            /\ IterateNext(currentTrackIndex, NumTracks, NumTracks) = currentTrackIndex)
    /\ [][NextTap => StartedIndex = (currentTrackIndex + 1) % NumTracks]_vars

\* C7 witness: next() pressed on the last of three tracks has loaded track 0.
C7_Witness ==
    \E s \in DOMAIN sounds :
        /\ NumTracks = 3
        /\ playbackInstance = s
        /\ sounds[s].from = NoSound
        /\ sounds[s].env.idx = NumTracks - 1
        /\ sounds[s].env.pi # NoSound
        /\ sounds[s].track = 0
        /\ currentTrackIndex = 0

\* C8: previous() is the inverse of next() on valid indexes, both ways, and
\* each button hands playAudio the index its computation gives.
C8_PreviousInvertsNext ==
    /\ [](currentTrackIndex \in TrackIndexes =>
            /\ PrevIndex(NextIndex(currentTrackIndex, NumTracks), NumTracks) = currentTrackIndex
            /\ NextIndex(PrevIndex(currentTrackIndex, NumTracks), NumTracks) = currentTrackIndex)
    /\ [][(NextTap => StartedIndex = NextIndex(currentTrackIndex, NumTracks))
          /\ (PreviousTap => StartedIndex = PrevIndex(currentTrackIndex, NumTracks))]_vars

\* C8 witness: previous() pressed on track 0 of three has loaded track 2,
\* from which next() leads back to 0.
C8_Witness ==
    \E s \in DOMAIN sounds :
        /\ NumTracks = 3
        /\ playbackInstance = s
        /\ sounds[s].from = NoSound
        /\ sounds[s].env.idx = 0
        /\ sounds[s].env.pi # NoSound
        /\ sounds[s].track = 2
        /\ currentTrackIndex = 2

\* C9 as stated: for every value of currentIndex, -1 included, previous()
\* selects (currentIndex - 1 + len) mod len.
C9_PreviousFormula ==
    [][(PreviousCall /\ NumTracks > 0) =>
          StartedIndex = (currentTrackIndex - 1 + NumTracks) % NumTracks]_vars

\* C9 amended: previous() selects (currentIndex - 1 + len) mod len for every
\* valid currentIndex, and the last track, len - 1, when currentIndex == -1.
C9_PreviousSelects ==
    [][(PreviousCall /\ NumTracks > 0) =>
          StartedIndex = (IF currentTrackIndex = NoTrack
                          THEN NumTracks - 1
                          ELSE (currentTrackIndex - 1 + NumTracks) % NumTracks)]_vars

\* C9 witness: previous() called with no track selected asked for the last
\* of three tracks.
C9_Witness ==
    \E s \in DOMAIN sounds :
        /\ NumTracks = 3
        /\ sounds[s].st = "loading"
        /\ sounds[s].from = NoSound
        /\ sounds[s].env.idx = NoTrack
        /\ sounds[s].track = NumTracks - 1

\* C10: togglePlayPause() changes no field of the transport state and never
\* replaces the session; without a session it does nothing, with one its
\* only effect is the engine command: pause when isPlaying, play otherwise.
C10_PlayPauseFrame ==
    [][PlayPauseTap =>
          /\ UNCHANGED <<transport, playbackInstance, sounds, unloading, catalog>>
          /\ IF playbackInstance = NoSound
             THEN UNCHANGED paused
             ELSE paused' = isPlaying]_vars

\* C10 witness: pause was issued to the held session and isPlaying is still
\* true, no status event having reported the pause yet.
C10_Witness ==
    /\ playbackInstance # NoSound
    /\ sounds[playbackInstance].st = "loaded"
    /\ paused
    /\ isPlaying = TRUE

\* C11: no beginSeek contacts the engine, each beginSeek(value) sets isSeeking
\* and position = value, and the commitSeek(v) that ends a drag on a held
\* session issues one seek or play-from command, carrying v.
C11_DragIssuesOneSeek ==
    [][/\ \A value \in 0 .. duration :
             (ControlsVisible /\ HandleSliderValueChange(value)) =>
                 /\ isSeeking' = TRUE
                 /\ position' = value
                 /\ UNCHANGED <<seek, paused, playbackInstance, sounds, unloading>>
       /\ \A value \in 0 .. duration :
             (ControlsVisible /\ playbackInstance # NoSound /\ HandleSlidingComplete(value)) =>
                 /\ seek'.kind \in {"setPositionAsync", "playFromPositionAsync"}
                 /\ seek'.value = value
                 /\ UNCHANGED <<playbackInstance, sounds, unloading>>]_vars

\* C11 witness: a drag on the held session was committed at MaxMillis; the
\* engine was given that value and the drag is over.
C11_Witness ==
    /\ playbackInstance # NoSound
    /\ seek.kind # "none"
    /\ seek.value = MaxMillis
    /\ position = MaxMillis
    /\ isSeeking = FALSE

\* C12: commitSeek on a held session issues seek-to-position when isPlaying is
\* false, leaving the engine paused if it was, and play-from-position when
\* isPlaying is true; it never changes isPlaying itself.
C12_SeekKeepsPlayState ==
    [][\A value \in 0 .. duration :
          (ControlsVisible /\ playbackInstance # NoSound /\ HandleSlidingComplete(value)) =>
              /\ isPlaying' = isPlaying
              /\ seek'.kind = (IF isPlaying THEN "playFromPositionAsync"
                                            ELSE "setPositionAsync")
              /\ ~isPlaying => paused' = paused]_vars

\* C12 witness: a paused session was sought and is still paused.
C12_Witness ==
    /\ playbackInstance # NoSound
    /\ seek.kind = "setPositionAsync"
    /\ paused
    /\ isPlaying = FALSE
    /\ isSeeking = FALSE

\* C13: every commitSeek ends with isSeeking == false, also when the engine
\* command it issued fails.
C13_CommitClearsSeeking == [][SliderRelease => isSeeking' = FALSE]_vars

\* C14: while the track list is empty no session is created, currentIndex is
\* -1 and isPlaying is false, and next() and previous() change nothing.
C14_EmptyListDisablesTransport ==
    /\ [](audioAssets = <<>> =>
            /\ sounds = <<>>
            /\ unloading = <<>>
            /\ playbackInstance = NoSound
            /\ currentTrackIndex = NoTrack
            /\ isPlaying = FALSE)
    /\ [][(NumTracks = 0 /\ (NextCall \/ PreviousCall)) => UNCHANGED vars]_vars

\* C14 witness: permission was granted and the listing ended with no tracks.
C14_Witness ==
    /\ startup = "done"
    /\ hasPermission = "true"
    /\ loading = FALSE
    /\ audioAssets = <<>>

\* C15: while isSeeking is true a status event from the held session changes
\* neither position nor duration.
C15_SeekingMasksStatus ==
    [][\A s \in DOMAIN sounds : \A status \in StatusOf(s) :
          (mounted /\ isSeeking /\ s = playbackInstance /\ OnPlaybackStatusUpdate(s, status))
              => UNCHANGED <<position, duration>>]_vars

\* C16: a finish reported by the held session starts the load of track
\* (currentIndex + 1) mod len, currentIndex being the index current then.
C16_FinishAdvancesFromCurrent ==
    [][\A s \in DOMAIN sounds : \A status \in StatusOf(s) :
          (mounted /\ s = playbackInstance /\ status.didJustFinish
                   /\ OnPlaybackStatusUpdate(s, status))
              => StartedIndex = (currentTrackIndex + 1) % NumTracks]_vars

\* The advance a finish of sound s started has not yet loaded its session.
AdvanceInProgress(s) ==
    \/ \E c \in DOMAIN unloading : unloading[c].from = s
    \/ \E n \in DOMAIN sounds : sounds[n].from = s /\ sounds[n].st = "loading"

\* C17: a finish event of a session whose advance is still in progress starts
\* no further advance.
C17_AdvanceOncePerFinish ==
    [][\A s \in DOMAIN sounds : \A status \in StatusOf(s) :
          (mounted /\ AdvanceInProgress(s) /\ status.didJustFinish
                   /\ OnPlaybackStatusUpdate(s, status))
              => UNCHANGED <<sounds, unloading>>]_vars

\* C18: after the component is unmounted no session is loaded in the engine.
C18_NoSessionAfterUnmount == ~mounted => Loaded = {}

\* C19: a status event reporting its session as not loaded changes no state
\* of the controller and starts no advance.
C19_NotLoadedEventIgnored ==
    [][\A s \in DOMAIN sounds : \A status \in StatusOf(s) :
          (mounted /\ ~status.isLoaded /\ OnPlaybackStatusUpdate(s, status))
              => UNCHANGED <<transport, playbackInstance, sounds, unloading>>]_vars

\* C19 witness: a session is held and playing while an earlier sound, now
\* unloaded or failed, can still deliver a status that is not loaded.
C19_Witness ==
    /\ mounted
    /\ playbackInstance # NoSound
    /\ isPlaying = TRUE
    /\ \E s \in DOMAIN sounds : \E status \in StatusOf(s) : ~status.isLoaded

\* C20: startup of a component that stays mounted eventually clears loading;
\* once it has ended loading is false and hasPermission holds the outcome of
\* the request, and the track list is non-empty only after a granted
\* permission and a completed listing.
C20_StartupCompletes ==
    /\ <>(loading = FALSE \/ ~mounted)
    /\ [](startup = "done" => loading = FALSE /\ hasPermission \in {"true", "false"})
    /\ [](loading = FALSE => startup = "done")
    /\ [](audioAssets # <<>> => hasPermission = "true" /\ startup = "done")

\* C20 witness: permission was granted, the listing returned tracks and the
\* loading state was left.
C20_Witness ==
    /\ startup = "done"
    /\ hasPermission = "true"
    /\ loading = FALSE
    /\ audioAssets # <<>>

====
